---- MODULE Spec2Model ----
(***************************************************************************)
(* A model of the swap core of cetus-dlmm-interface (sdk/swap-sdk):        *)
(* the wide multiply-divide, the fee and amount conversions, the single    *)
(* bin exchange (Bin) and the bin-crossing router with its dynamic fee     *)
(* (Pool).                                                                 *)
(*                                                                         *)
(* Numbers.  The code computes on u16, u32, u64, u128 and U256.  TLC's     *)
(* integers stop at 2^31, so every unsigned quantity of the code is held   *)
(* as a natural number of arbitrary size: the little-endian sequence of    *)
(* its digits in base Base, without leading zero digits (zero is << >>).   *)
(* The widths of the code are then stated where the code states them:      *)
(* a checked operation fails above the maximum of its type, an unchecked   *)
(* one panics (overflow checks on, the debug profile) or wraps (overflow   *)
(* checks off, the release profile), and an `as` cast truncates.  Bin ids  *)
(* (i32) and indexes (usize) are small and are plain integers.             *)
(***************************************************************************)
EXTENDS Integers, Sequences, FiniteSets, TLC

(***************************************************************************)
(* Natural numbers of arbitrary size                                       *)
(***************************************************************************)
Base == 100 * 100

Zero == << >>

\* The length of s[1..n] without its leading (most significant) zero digits.
RECURSIVE NormLen(_, _)
NormLen(s, n) == IF n = 0 THEN 0 ELSE IF s[n] = 0 THEN NormLen(s, n - 1) ELSE n

\* s without its leading zero digits.
Norm(s) == SubSeq(s, 1, NormLen(s, Len(s)))

\* The natural number n (0 <= n < 2^31) as a digit sequence.
RECURSIVE N(_)
N(n) == IF n = 0 THEN << >> ELSE <<n % Base>> \o N(n \div Base)

Limb(s, i) == IF 1 <= i /\ i <= Len(s) THEN s[i] ELSE 0

RECURSIVE CmpAt(_, _, _)
CmpAt(a, b, i) ==
    IF i = 0 THEN 0
    ELSE IF a[i] > b[i] THEN 1
    ELSE IF a[i] < b[i] THEN -1
    ELSE CmpAt(a, b, i - 1)

Cmp(a, b) ==
    IF Len(a) # Len(b) THEN (IF Len(a) > Len(b) THEN 1 ELSE -1)
    ELSE CmpAt(a, b, Len(a))

Le(a, b) == Cmp(a, b) <= 0

Lt(a, b) == Cmp(a, b) < 0

Min(a, b) == IF Le(a, b) THEN a ELSE b

\* The carry out of digit j of a sum whose digit sums are s (each < 2 * Base).
RECURSIVE Carry(_, _)
Carry(s, j) ==
    IF j = 0 THEN 0
    ELSE IF s[j] # Base - 1 THEN (IF s[j] >= Base THEN 1 ELSE 0)
    ELSE Carry(s, j - 1)

\* The digits of a sum from its digit sums s.
AddS(s) == Norm([i \in 1..Len(s) |-> (s[i] + Carry(s, i - 1)) % Base])

AddN(a, b, n) == AddS([i \in 1..(n + 1) |-> Limb(a, i) + Limb(b, i)])

Add(a, b) == AddN(a, b, IF Len(a) >= Len(b) THEN Len(a) ELSE Len(b))

\* The borrow out of digit j of a difference whose digit differences are d.
RECURSIVE Borrow(_, _)
Borrow(d, j) ==
    IF j = 0 THEN 0
    ELSE IF d[j] # 0 THEN (IF d[j] < 0 THEN 1 ELSE 0)
    ELSE Borrow(d, j - 1)

\* The digits of a difference from its digit differences d.
SubD(d) == Norm([i \in 1..Len(d) |-> (d[i] - Borrow(d, i - 1) + Base) % Base])

\* a - b, for a >= b.
Sub(a, b) == SubD([i \in 1..Len(a) |-> a[i] - Limb(b, i)])

\* The number whose digit i is the possibly two-digit number p[i].
Carried(p) ==
    AddS([i \in 1..(Len(p) + 2) |->
            (IF i <= Len(p) THEN p[i] % Base ELSE 0)
          + (IF 1 < i /\ i <= Len(p) + 1 THEN p[i - 1] \div Base ELSE 0)])

\* a * k, for one digit k.
MulSmall(a, k) ==
    IF k = 0 \/ a = << >> THEN << >>
    ELSE Carried([i \in 1..Len(a) |-> a[i] * k])

\* The sum of a[i] * b[c + 1 - i] over the digits i..Len(a) of a: column c of
\* the product (at most 21 terms below Base^2 fit an integer of TLC).
RECURSIVE Column(_, _, _, _)
Column(a, b, c, i) ==
    IF i > Len(a) \/ i > c THEN 0
    ELSE a[i] * Limb(b, c + 1 - i) + Column(a, b, c, i + 1)

\* The number whose digit c is the up to three-digit number col[c].
Columns(col) ==
    Add(Carried([c \in 1..Len(col) |-> col[c] % (Base * Base)]),
        Norm([c \in 1..(Len(col) + 2) |->
                IF c <= 2 THEN 0 ELSE col[c - 2] \div (Base * Base)]))

Mul(a, b) ==
    IF a = << >> \/ b = << >> THEN << >>
    ELSE Columns([c \in 1..(Len(a) + Len(b)) |-> Column(a, b, c, 1)])

\* The largest digit d <= up with b * d <= cur (one exists at or above 0).
RECURSIVE QDigit(_, _, _)
QDigit(cur, b, up) ==
    IF up = 0 \/ Le(MulSmall(b, up), cur) THEN up ELSE QDigit(cur, b, up - 1)

\* The quotient digit of cur by b (cur < b * Base), from the estimate given
\* by the two leading digits of cur and the leading digit of b.
QEstimate(cur, b, n) ==
    IF Lt(cur, b) THEN 0
    ELSE QDigit(cur, b,
                IF (Limb(cur, n + 1) * Base + Limb(cur, n)) \div b[n] < Base
                THEN (Limb(cur, n + 1) * Base + Limb(cur, n)) \div b[n]
                ELSE Base - 1)

DivDigit(hq, cur, b, d) == [q |-> <<d>> \o hq, r |-> Sub(cur, MulSmall(b, d))]

DivCur(hq, cur, b) == DivDigit(hq, cur, b, QEstimate(cur, b, Len(b)))

\* One step of the long division by b: the quotient and remainder h of the
\* digits above, extended by the digit ai.
DivStep(h, ai, b) ==
    IF h.r = << >> /\ ai = 0 THEN [q |-> <<0>> \o h.q, r |-> << >>]
    ELSE DivCur(h.q, <<ai>> \o h.r, b)

\* Long division, most significant digit first: the quotient and remainder
\* of the number made of the digits i.. of a, divided by b (b # 0).
RECURSIVE DivAt(_, _, _)
DivAt(a, b, i) ==
    IF i > Len(a) - (Len(b) - 1)
    THEN [q |-> << >>, r |-> IF i > Len(a) THEN << >> ELSE Norm(SubSeq(a, i, Len(a)))]
    ELSE DivStep(DivAt(a, b, i + 1), a[i], b)

DivQR(a, b, q) == [q |-> q, r |-> Sub(a, Mul(q, b))]

\* The quotient and the remainder of a by b (b # 0).  Both are first scaled
\* by f, which brings the leading digit of the divisor to Base / 2 or more,
\* so that the estimate of a quotient digit is at most 2 above it.
DivScaled(a, b, f) ==
    DivQR(a, b, Norm(IF f = 1 THEN DivAt(a, b, 1).q
                     ELSE DivAt(MulSmall(a, f), MulSmall(b, f), 1).q))

DivMod(a, b) == DivScaled(a, b, Base \div (Limb(b, Len(b)) + 1))

Div(a, b) == DivMod(a, b).q

Mod(a, b) == DivMod(a, b).r

RECURSIVE Pow2(_)
Pow2(k) ==
    IF k = 0 THEN N(1)
    ELSE IF k % 2 = 0 THEN LET h == Pow2(k \div 2) IN Mul(h, h)
    ELSE MulSmall(Pow2(k - 1), 2)

(***************************************************************************)
(* The integer types of the code                                           *)
(***************************************************************************)
TWO_32 == Pow2(32)

TWO_64 == Pow2(64)

U32_MAX == Sub(TWO_32, N(1))

U64_MAX == Sub(TWO_64, N(1))

I64_MAX == Sub(Pow2(63), N(1))

U128_MAX == Sub(Pow2(128), N(1))

U256_MAX == Sub(Pow2(256), N(1))

\* `x as u64`, `x as u32`: the low bits.
AsU64(x) == IF Le(x, U64_MAX) THEN x ELSE Mod(x, TWO_64)

AsU32(x) == IF Le(x, U32_MAX) THEN x ELSE Mod(x, TWO_32)

\* An unchecked u64 `a + b` and `a - b`: the wrapped value v, and whether
\* the operation left the type (of), a panic when overflow checks are on.
Wrapped(s) ==
    IF Le(s, U64_MAX) THEN [v |-> s, of |-> FALSE]
    ELSE [v |-> Sub(s, TWO_64), of |-> TRUE]

AddU64(a, b) == Wrapped(Add(a, b))

SubU64(a, b) ==
    IF Le(b, a) THEN [v |-> Sub(a, b), of |-> FALSE]
    ELSE [v |-> Sub(Add(a, TWO_64), b), of |-> TRUE]

\* u64::saturating_sub and u64::saturating_add.
saturating_sub(a, b) == IF Le(b, a) THEN Sub(a, b) ELSE Zero

saturating_add(a, b) == Min(Add(a, b), U64_MAX)

(***************************************************************************)
(* Results                                                                 *)
(***************************************************************************)
\* Result<T, Error> and Option<T>: st is "ok" with the value v, or "err"
\* with the message err.  A panic (an unchecked overflow with overflow
\* checks on) is st = "panic".
\* Every record of this module lists its fields in the order in which the
\* names first occur in the module, the order TLC keeps a record in: a
\* record written so is never rearranged while two workers read it.
Ok(v) == [v |-> v, st |-> "ok", err |-> ""]

Err(e) == [v |-> Zero, st |-> "err", err |-> e]

Panic == [v |-> Zero, st |-> "panic", err |-> "overflow"]

\* let x = ...; K(x)
Let(x, K(_)) == K(x)

\* r?: the failure r itself, or what follows with the value of r.
Try(r, K(_)) == IF r.st # "ok" THEN r ELSE K(r.v)

\* r.ok_or(e), r.context(e): a failure carries the message e.
Context(r, e) == IF r.st # "ok" THEN Err(e) ELSE r

\* An unchecked operation x under the build oc: a panic, or what follows
\* with the wrapped value.
Unchecked(oc, x, K(_)) == IF oc /\ x.of THEN Panic ELSE K(x.v)

\* A checked operation on a type with the maximum max.
Checked(x, max, e) == IF Le(x, max) THEN Ok(x) ELSE Err(e)

(***************************************************************************)
(* Constants                                                               *)
(***************************************************************************)
MAX_FEE_RATE == 100000000

FEE_PRECISION == 1000000000

BASIS_POINT_MAX == 10000

SCALE_OFFSET == 64

ONE == Pow2(SCALE_OFFSET)

Up == "Up"

Down == "Down"

(***************************************************************************)
(* math/full_math.rs                                                       *)
(***************************************************************************)
\* A faulty Rounded: the quotient is never rounded up.
Rounded_down(qr, rounding) == qr.q

\* prod.div_ceil(denominator) and the quotient of prod.div_rem(denominator).
Rounded(qr, rounding) ==
    IF rounding = Up /\ qr.r # Zero THEN Add(qr.q, N(1)) ELSE qr.q

\* (x * y) / denominator in U256, rounded as asked, then narrowed to u128.
mul_div(x, y, denominator, rounding) ==
    IF denominator = Zero THEN Err("None")
    ELSE Try(Checked(Mul(x, y), U256_MAX, "None"), LAMBDA prod :
         Checked(Rounded(DivMod(prod, denominator), rounding), U128_MAX, "None"))

(***************************************************************************)
(* math/dlmm_math.rs                                                       *)
(***************************************************************************)
\* A faulty calculate_fee_inclusive: the fee is rounded down.
calculate_fee_inclusive_floor(amount, fee_rate) ==
    IF amount = Zero \/ fee_rate = Zero THEN Ok(Zero)
    ELSE IF Lt(N(FEE_PRECISION), fee_rate)
    THEN Err("fee_rate is greater than FEE_PRECISION")
    ELSE Try(Context(mul_div(amount, fee_rate, N(FEE_PRECISION), Down),
                     "fee_amount overflow"),
             LAMBDA r : Ok(AsU64(r)))

calculate_fee_inclusive(amount, fee_rate) ==
    IF amount = Zero \/ fee_rate = Zero THEN Ok(Zero)
    ELSE IF Lt(N(FEE_PRECISION), fee_rate)
    THEN Err("fee_rate is greater than FEE_PRECISION")
    ELSE Try(Context(mul_div(amount, fee_rate, N(FEE_PRECISION), Up),
                     "fee_amount overflow"),
             LAMBDA r : Ok(AsU64(r)))

calculate_fee_exclusive(amount, fee_rate) ==
    IF amount = Zero \/ fee_rate = Zero THEN Ok(Zero)
    ELSE IF Lt(N(FEE_PRECISION), fee_rate)
    THEN Err("fee_rate is greater than FEE_PRECISION")
    ELSE Try(Context(mul_div(amount, fee_rate, Sub(N(FEE_PRECISION), fee_rate), Up),
                     "fee_amount overflow"),
             LAMBDA r : Ok(AsU64(r)))

\* A faulty calculate_amount_in: the input is rounded down.
calculate_amount_in_floor(amount_out, price, a2b) ==
    IF price = Zero THEN Err("price is zero")
    ELSE IF amount_out = Zero THEN Ok(Zero)
    ELSE Try(Context(IF a2b THEN mul_div(amount_out, ONE, price, Down)
                            ELSE mul_div(amount_out, price, ONE, Down),
                     "amount_in overflow"),
             LAMBDA r : Checked(r, U64_MAX, "amount_in overflow"))

calculate_amount_in(amount_out, price, a2b) ==
    IF price = Zero THEN Err("price is zero")
    ELSE IF amount_out = Zero THEN Ok(Zero)
    ELSE Try(Context(IF a2b THEN mul_div(amount_out, ONE, price, Up)
                            ELSE mul_div(amount_out, price, ONE, Up),
                     "amount_in overflow"),
             LAMBDA r : Checked(r, U64_MAX, "amount_in overflow"))

calculate_amount_out(amount_in, price, a2b) ==
    IF price = Zero THEN Err("price is zero")
    ELSE IF amount_in = Zero THEN Ok(Zero)
    ELSE Try(Context(IF a2b THEN mul_div(amount_in, price, ONE, Down)
                            ELSE mul_div(amount_in, ONE, price, Down),
                     "amount_out overflow"),
             LAMBDA r : Checked(r, U64_MAX, "amount_out overflow"))

(***************************************************************************)
(* bin.rs                                                                  *)
(***************************************************************************)
\* A Bin holding the reserves amount_a and amount_b at a price (Q64.64);
\* the four remaining fields are carried along and are not read by a swap.
make_bin(id, amount_a, amount_b, price) ==
    [price |-> price, id |-> id, amount_a |-> amount_a, amount_b |-> amount_b,
     liquidity_supply |-> Zero, rewards_growth_global |-> << >>,
     fee_amount_a_growth_global |-> Zero, fee_amount_b_growth_global |-> Zero]

\* The value of a successful call on a bin: the bin as the call leaves it
\* and the tuple (amount_in, amount_out, fee, protocol_fee).
BinSwapped(b, amount_in, amount_out, fee, protocol_fee) ==
    [amount_out |-> amount_out, amount_in |-> amount_in, fee |-> fee,
     protocol_fee |-> protocol_fee, bin |-> b]

reserve_in(b, a2b) == IF a2b THEN b.amount_a ELSE b.amount_b

reserve_out(b, a2b) == IF a2b THEN b.amount_b ELSE b.amount_a

\* self.amount_x + amount_in - fee_amount, left to right.
credit_net(reserve, amount_in, fee_amount) ==
    Let(AddU64(reserve, amount_in), LAMBDA s :
    Let(SubU64(s.v, fee_amount), LAMBDA d :
        [v |-> d.v, of |-> s.of \/ d.of]))

\* A faulty settle: the swap also books its input as fee growth.
settle_accruing(b, a2b, credit, debit, oc) ==
    Unchecked(oc, credit, LAMBDA c :
    Unchecked(oc, debit, LAMBDA d :
        Ok(IF a2b THEN [b EXCEPT !.amount_a = c, !.amount_b = d,
                                 !.fee_amount_a_growth_global = c]
                  ELSE [b EXCEPT !.amount_a = d, !.amount_b = c,
                                 !.fee_amount_b_growth_global = c])))

\* The two assignments that end a bin swap: the input side becomes credit,
\* the output side debit, both computed unchecked.
settle(b, a2b, credit, debit, oc) ==
    Unchecked(oc, credit, LAMBDA c :
    Unchecked(oc, debit, LAMBDA d :
        Ok(IF a2b THEN [b EXCEPT !.amount_a = c, !.amount_b = d]
                  ELSE [b EXCEPT !.amount_a = d, !.amount_b = c])))

\* The branch taken when the bin cannot pay amount_out in full: the input
\* that buys the whole output reserve, fee on top.
swap_in_clipped(b, amount_in, a2b, fee_rate, oc) ==
    Try(calculate_amount_in(reserve_out(b, a2b), b.price, a2b), LAMBDA amount_in_without_fee :
    Try(calculate_fee_exclusive(amount_in_without_fee, fee_rate), LAMBDA fee_amount :
    Unchecked(oc, AddU64(amount_in_without_fee, fee_amount), LAMBDA amount_in_with_fee :
        IF Lt(amount_in, amount_in_with_fee)
        THEN Err("amount_in_with_fee is greater than amount_in")
        ELSE Ok(BinSwapped(b, amount_in_with_fee, reserve_out(b, a2b), fee_amount, Zero)))))

\* The tuple (amount_in, amount_out, fee_amount) of a swap of amount_in.
swap_in_amounts(b, amount_in, a2b, fee_rate, oc) ==
    Try(calculate_fee_inclusive(amount_in, fee_rate), LAMBDA fee_amount :
    Unchecked(oc, SubU64(amount_in, fee_amount), LAMBDA net :
    Try(calculate_amount_out(net, b.price, a2b), LAMBDA amount_out :
        IF Le(amount_out, reserve_out(b, a2b))
        THEN Ok(BinSwapped(b, amount_in, amount_out, fee_amount, Zero))
        ELSE swap_in_clipped(b, amount_in, a2b, fee_rate, oc))))

Bin_swap_exact_amount_in(b, amount_in, a2b, fee_rate, protocol_fee_rate, oc) ==
    Try(swap_in_amounts(b, amount_in, a2b, fee_rate, oc), LAMBDA t :
    Try(calculate_fee_inclusive(t.fee, protocol_fee_rate), LAMBDA protocol_fee :
    Try(settle(b, a2b, credit_net(reserve_in(b, a2b), t.amount_in, t.fee),
               SubU64(reserve_out(b, a2b), t.amount_out), oc), LAMBDA after :
        Ok(BinSwapped(after, t.amount_in, t.amount_out, t.fee, protocol_fee)))))

\* A faulty allow_amount_out: the request is not clamped to the reserve.
allow_amount_out_unclamped(reserve, amount_out) == amount_out

\* self.amount_x.min(amount_out)
allow_amount_out(reserve, amount_out) == Min(reserve, amount_out)

Bin_swap_exact_amount_out(b, amount_out, a2b, fee_rate, protocol_fee_rate, oc) ==
    Let(allow_amount_out(reserve_out(b, a2b), amount_out), LAMBDA allow :
    Try(calculate_amount_in(allow, b.price, a2b), LAMBDA amount_in_without_fee :
    Try(calculate_fee_exclusive(amount_in_without_fee, fee_rate), LAMBDA fee_amount :
    Unchecked(oc, AddU64(amount_in_without_fee, fee_amount), LAMBDA amount_in_with_fee :
    Try(calculate_fee_inclusive(fee_amount, protocol_fee_rate), LAMBDA protocol_fee :
    Try(settle(b, a2b, AddU64(reserve_in(b, a2b), amount_in_without_fee),
               SubU64(reserve_out(b, a2b), allow), oc), LAMBDA after :
        Ok(BinSwapped(after, amount_in_with_fee, allow, fee_amount, protocol_fee))))))))

(***************************************************************************)
(* config.rs                                                               *)
(***************************************************************************)
\* The u16 fields are integers, the u32 and u64 fields natural numbers.
BinStepConfig_new(bin_step, base_factor, filter_period, decay_period, reduction_factor, variable_fee_control, max_volatility_accumulator, protocol_fee_rate) ==
    [protocol_fee_rate |-> protocol_fee_rate, bin_step |-> bin_step,
     base_factor |-> base_factor, filter_period |-> filter_period,
     decay_period |-> decay_period,
     reduction_factor |-> reduction_factor,
     variable_fee_control |-> variable_fee_control,
     max_volatility_accumulator |-> max_volatility_accumulator]

VariableParameters_new(bin_step_config, index_reference, last_update_timestamp) ==
    [bin_step_config |-> bin_step_config, index_reference |-> index_reference,
     last_update_timestamp |-> last_update_timestamp,
     volatility_accumulator |-> Zero, volatility_reference |-> Zero]

(***************************************************************************)
(* pool.rs                                                                 *)
(***************************************************************************)
SwapResult_default ==
    [amount_out |-> Zero, amount_in |-> Zero, fee |-> Zero, protocol_fee |-> Zero,
     ref_fee |-> Zero, steps |-> << >>, is_exceed |-> FALSE]

\* The three unchecked `+=` and the push: the result v, and whether a sum
\* left u64 (of).
update_swap_sums(result, swap_step, ai, ao, fe) ==
    [v  |-> [result EXCEPT !.amount_in = ai.v, !.amount_out = ao.v, !.fee = fe.v,
                           !.steps = Append(result.steps, swap_step)],
     of |-> ai.of \/ ao.of \/ fe.of]

update_swap_result(result, swap_step) ==
    update_swap_sums(result, swap_step,
                     AddU64(result.amount_in, swap_step.amount_in),
                     AddU64(result.amount_out, swap_step.amount_out),
                     AddU64(result.fee, swap_step.fee))

BinSwap(bin_id, amount_in, amount_out, fee, var_fee_rate) ==
    [amount_out |-> amount_out, amount_in |-> amount_in, fee |-> fee,
     bin_id |-> bin_id, var_fee_rate |-> var_fee_rate]

Pool_new(active_id, base_fee_rate, v_parameters, bins) ==
    [active_id |-> active_id, base_fee_rate |-> base_fee_rate,
     v_parameters |-> v_parameters, bins |-> bins]

\* Option<usize>; an index counts from 0 as in the code, bins[i + 1] here is
\* the code's bins[i].
None == [v |-> 0, some |-> FALSE]

Some(v) == [v |-> v, some |-> TRUE]

\* The binary search of find_first_swap_bin_index between left and right.
RECURSIVE first_swap_bin_search(_, _, _, _, _)
first_swap_bin_search(bins, current_bin_index, a2b, left, right) ==
    IF left > right THEN <<None, None>>
    ELSE LET mid == left + ((right - left) \div 2)
         IN  IF a2b
             THEN IF bins[mid + 1].id <= current_bin_index
                  THEN IF mid = Len(bins) - 1 \/ bins[mid + 2].id > current_bin_index
                       THEN <<Some(mid), IF mid > 0 THEN Some(mid - 1) ELSE None>>
                       ELSE first_swap_bin_search(bins, current_bin_index, a2b, mid + 1, right)
                  ELSE IF mid = 0 THEN <<None, None>>
                  ELSE first_swap_bin_search(bins, current_bin_index, a2b, left, mid - 1)
             ELSE IF bins[mid + 1].id > current_bin_index
                  THEN IF mid = 0 \/ bins[mid].id <= current_bin_index
                       THEN <<Some(mid), IF mid >= Len(bins) - 1 THEN None ELSE Some(mid + 1)>>
                       ELSE first_swap_bin_search(bins, current_bin_index, a2b, left, mid - 1)
                  ELSE first_swap_bin_search(bins, current_bin_index, a2b, mid + 1, right)

\* A faulty find_first_swap_bin_index: the search always answers the first
\* bin of the sequence.
find_first_swap_bin_index_lowest(bins, current_bin_index, a2b) ==
    IF bins = << >> THEN <<None, None>> ELSE <<Some(0), None>>

find_first_swap_bin_index(bins, current_bin_index, a2b) ==
    IF bins = << >> THEN <<None, None>>
    ELSE first_swap_bin_search(bins, current_bin_index, a2b, 0, Len(bins) - 1)

\* `x as i64` of a u64: sign and magnitude.
AsI64(x) ==
    IF Le(x, I64_MAX) THEN [neg |-> FALSE, mag |-> x]
    ELSE [neg |-> TRUE, mag |-> Sub(TWO_64, x)]

\* a <= b on i64.
I64Le(a, b) ==
    IF a.neg # b.neg THEN a.neg
    ELSE IF a.neg THEN Le(b.mag, a.mag) ELSE Le(a.mag, b.mag)

\* a - b for i64 a > b: the difference, a positive number.
I64Diff(a, b) ==
    IF a.neg THEN Sub(b.mag, a.mag)
    ELSE IF b.neg THEN Add(a.mag, b.mag)
    ELSE Sub(a.mag, b.mag)

\* The failure e of a step that leaves the pool as p.
PoolErr(p, e) == [v |-> p, st |-> "err", err |-> e]

\* The references after the filter period: index_reference follows active_id
\* and volatility_reference decays or, after the decay period, is reset.
decay_references(p, elapsed) ==
    Let([p EXCEPT !.v_parameters.index_reference = p.active_id], LAMBDA q :
        IF Lt(elapsed, N(q.v_parameters.bin_step_config.decay_period))
        THEN Let(Mul(q.v_parameters.volatility_accumulator,
                     N(q.v_parameters.bin_step_config.reduction_factor)), LAMBDA prod :
                 IF Lt(U64_MAX, prod) THEN PoolErr(q, "volatility reference overflow")
                 ELSE Ok([q EXCEPT !.v_parameters.volatility_reference =
                                       AsU32(Div(prod, N(BASIS_POINT_MAX)))]))
        ELSE Ok([q EXCEPT !.v_parameters.volatility_reference = Zero]))

\* The pool once elapsed = current_timestamp - last is known.  elapsed is an
\* unchecked i64 difference: above i64::MAX it panics, or wraps to a
\* negative number, which is below every filter period.
references_after(p, elapsed, oc) ==
    IF Lt(I64_MAX, elapsed)
    THEN (IF oc THEN [Panic EXCEPT !.v = p] ELSE Ok(p))
    ELSE IF Le(N(p.v_parameters.bin_step_config.filter_period), elapsed)
    THEN decay_references(p, elapsed)
    ELSE Ok(p)

\* update_references(current_timestamp as i64): the pool it leaves is v,
\* also when it fails.
update_references(p, current_timestamp, oc) ==
    Let(AsI64(current_timestamp), LAMBDA now :
    Let(AsI64(p.v_parameters.last_update_timestamp), LAMBDA lst :
        IF I64Le(now, lst) THEN Ok(p)
        ELSE references_after(p, I64Diff(now, lst), oc)))

Abs(i) == IF i < 0 THEN -i ELSE i

\* A faulty cap_accumulator: the accumulator is stored as computed.
cap_accumulator_uncapped(accumulator, max_accumulator) == accumulator

\* accumulator.min(max_accumulator as u64)
cap_accumulator(accumulator, max_accumulator) == Min(accumulator, max_accumulator)

update_volatility_accumulator(p) ==
    Try(Checked(Mul(N(Abs(p.v_parameters.index_reference - p.active_id)),
                    N(BASIS_POINT_MAX)),
                U64_MAX, "volatility accumulator overflow"), LAMBDA moved :
    Try(Checked(Add(p.v_parameters.volatility_reference, moved),
                U64_MAX, "volatility accumulator overflow"), LAMBDA accumulator :
        Ok([p EXCEPT !.v_parameters.volatility_accumulator =
                AsU32(cap_accumulator(accumulator,
                          p.v_parameters.bin_step_config.max_volatility_accumulator))])))

\* 100_000_000_000, the scale of the variable fee.
VARIABLE_FEE_SCALE == Mul(N(100000), N(1000000))

\* A faulty compute_variable_fee: the quotient is rounded down.
compute_variable_fee_floor(s_params, volatility_accumulator) ==
    IF s_params.variable_fee_control = Zero THEN Ok(Zero)
    ELSE Let(Mul(volatility_accumulator, N(s_params.bin_step)), LAMBDA combined :
             Ok(Div(Mul(s_params.variable_fee_control, Mul(combined, combined)),
                    VARIABLE_FEE_SCALE)))

\* Every product and the sum are checked on u128.
compute_variable_fee(s_params, volatility_accumulator) ==
    IF s_params.variable_fee_control = Zero THEN Ok(Zero)
    ELSE Try(Checked(Mul(volatility_accumulator, N(s_params.bin_step)),
                     U128_MAX, "variable fee overflow"), LAMBDA combined :
         Try(Checked(Mul(combined, combined),
                     U128_MAX, "variable fee overflow"), LAMBDA square :
         Try(Checked(Mul(s_params.variable_fee_control, square),
                     U128_MAX, "variable fee overflow"), LAMBDA v_fee :
         Try(Checked(Add(v_fee, Sub(VARIABLE_FEE_SCALE, N(1))),
                     U128_MAX, "variable fee overflow"), LAMBDA padded :
             Ok(Div(padded, VARIABLE_FEE_SCALE))))))

get_variable_fee(p) ==
    compute_variable_fee(p.v_parameters.bin_step_config,
                         p.v_parameters.volatility_accumulator)

\* (fee_rate, dy_fee_rate): the capped total and the variable part, as u64.
get_total_fee(p) ==
    Try(get_variable_fee(p), LAMBDA variable_fee :
    Try(Checked(Add(p.base_fee_rate, variable_fee), U128_MAX, "total fee overflow"),
        LAMBDA total_fee_rate :
        Ok([fee_rate |-> AsU64(Min(total_fee_rate, N(MAX_FEE_RATE))),
            dy_fee_rate |-> AsU64(variable_fee)])))

\* A faulty next_bin_idx: the walk stops after its first bin.
next_bin_idx_none(current_bin_idx, a2b, len) == None

\* A faulty next_bin_idx: the walk goes up the bins in both directions.
next_bin_idx_up(current_bin_idx, a2b, len) ==
    IF current_bin_idx < len - 1 THEN Some(current_bin_idx + 1) ELSE None

\* The bin after current_bin_idx in the direction of the swap.
next_bin_idx(current_bin_idx, a2b, len) ==
    IF a2b THEN (IF current_bin_idx > 0 THEN Some(current_bin_idx - 1) ELSE None)
    ELSE IF current_bin_idx < len - 1 THEN Some(current_bin_idx + 1) ELSE None

\* The locals of swap_in_pool while its loop runs (st = "run") and as an
\* error ("err") or a panic ("panic") leaves them.  trace records, for each
\* iteration that reached a bin, what the bin was priced with.
LoopState(p, amount, first) ==
    [st |-> "run", err |-> "", result |-> SwapResult_default, pool |-> p,
     remaining |-> amount, acc |-> Zero, next |-> first, trace |-> << >>]

\* r? inside the loop: the locals as the failure r leaves them, or what
\* follows with the value of r.
TryIn(s, r, K(_)) ==
    IF r.st # "ok" THEN [s EXCEPT !.st = r.st, !.err = r.err] ELSE K(r.v)

\* What the iteration on bin current_bin_idx priced the bin with.
Priced(s, current_bin_idx, fee) ==
    [fee_rate |-> fee.fee_rate,
     volatility_accumulator |-> s.pool.v_parameters.volatility_accumulator,
     bin_id |-> s.pool.bins[current_bin_idx + 1].id, active_id |-> s.pool.active_id,
     dy_fee_rate |-> fee.dy_fee_rate, remaining |-> s.remaining,
     bin_idx |-> current_bin_idx]

\* A faulty after_bin_swap: active_id moves to the next bin whether or not
\* the request is filled.
after_bin_swap_advancing(s, r, current_bin_idx, dy_fee_rate, by_amount_in, oc) ==
    Let(saturating_sub(s.remaining, IF by_amount_in THEN r.amount_in ELSE r.amount_out),
        LAMBDA remaining :
    Let([s.pool EXCEPT !.bins[current_bin_idx + 1] = r.bin], LAMBDA p1 :
    TryIn([s EXCEPT !.pool = p1],
          Unchecked(oc, update_swap_result(s.result,
                            BinSwap(r.bin.id, r.amount_in, r.amount_out, r.fee, dy_fee_rate)),
                    LAMBDA res : Ok(res)),
          LAMBDA result :
        [s EXCEPT !.remaining = remaining,
                  !.result = result,
                  !.acc = saturating_add(s.acc, r.protocol_fee),
                  !.pool = IF s.next.some
                           THEN [p1 EXCEPT !.active_id = p1.bins[s.next.v + 1].id]
                           ELSE p1])))

\* A faulty after_bin_swap: in exact-in mode the remaining amount is reduced
\* by the input net of the fee.
after_bin_swap_net(s, r, current_bin_idx, dy_fee_rate, by_amount_in, oc) ==
    Let(saturating_sub(s.remaining, IF by_amount_in THEN Sub(r.amount_in, r.fee)
                                                    ELSE r.amount_out),
        LAMBDA remaining :
    Let([s.pool EXCEPT !.bins[current_bin_idx + 1] = r.bin], LAMBDA p1 :
    TryIn([s EXCEPT !.pool = p1],
          Unchecked(oc, update_swap_result(s.result,
                            BinSwap(r.bin.id, r.amount_in, r.amount_out, r.fee, dy_fee_rate)),
                    LAMBDA res : Ok(res)),
          LAMBDA result :
        [s EXCEPT !.remaining = remaining,
                  !.result = result,
                  !.acc = saturating_add(s.acc, r.protocol_fee),
                  !.pool = IF remaining # Zero /\ s.next.some
                           THEN [p1 EXCEPT !.active_id = p1.bins[s.next.v + 1].id]
                           ELSE p1])))

\* The iteration from the bin's answer r on: the step is recorded, the
\* remaining amount reduced, and active_id moves to the next bin if the
\* request is not filled.
after_bin_swap(s, r, current_bin_idx, dy_fee_rate, by_amount_in, oc) ==
    Let(saturating_sub(s.remaining, IF by_amount_in THEN r.amount_in ELSE r.amount_out),
        LAMBDA remaining :
    Let([s.pool EXCEPT !.bins[current_bin_idx + 1] = r.bin], LAMBDA p1 :
    TryIn([s EXCEPT !.pool = p1],
          Unchecked(oc, update_swap_result(s.result,
                            BinSwap(r.bin.id, r.amount_in, r.amount_out, r.fee, dy_fee_rate)),
                    LAMBDA res : Ok(res)),
          LAMBDA result :
        [s EXCEPT !.remaining = remaining,
                  !.result = result,
                  !.acc = saturating_add(s.acc, r.protocol_fee),
                  !.pool = IF remaining # Zero /\ s.next.some
                           THEN [p1 EXCEPT !.active_id = p1.bins[s.next.v + 1].id]
                           ELSE p1])))

\* The iteration from the fee rates on: the bin swaps the remaining amount.
price_and_swap(s, current_bin_idx, fee, a2b, by_amount_in, oc) ==
    Let([s EXCEPT !.trace = Append(s.trace, Priced(s, current_bin_idx, fee))], LAMBDA t :
    TryIn(t,
          IF by_amount_in
          THEN Bin_swap_exact_amount_in(s.pool.bins[current_bin_idx + 1], s.remaining, a2b,
                   fee.fee_rate, s.pool.v_parameters.bin_step_config.protocol_fee_rate, oc)
          ELSE Bin_swap_exact_amount_out(s.pool.bins[current_bin_idx + 1], s.remaining, a2b,
                   fee.fee_rate, s.pool.v_parameters.bin_step_config.protocol_fee_rate, oc),
          LAMBDA r : after_bin_swap(t, r, current_bin_idx, fee.dy_fee_rate, by_amount_in, oc)))

\* One iteration of the loop on the bin op_next_bin_idx names.
swap_iteration(s, a2b, by_amount_in, oc) ==
    Let([s EXCEPT !.next = next_bin_idx(s.next.v, a2b, Len(s.pool.bins))], LAMBDA t :
    TryIn(t, update_volatility_accumulator(t.pool), LAMBDA p1 :
    TryIn([t EXCEPT !.pool = p1], get_total_fee(p1), LAMBDA fee :
        price_and_swap([t EXCEPT !.pool = p1], s.next.v, fee, a2b, by_amount_in, oc))))

\* while remaining_amount > 0 { ... }
RECURSIVE swap_loop(_, _, _, _)
swap_loop(s, a2b, by_amount_in, oc) ==
    IF s.st # "run" \/ s.remaining = Zero THEN s
    ELSE IF ~s.next.some THEN [s EXCEPT !.result.is_exceed = TRUE]
    ELSE swap_loop(swap_iteration(s, a2b, by_amount_in, oc), a2b, by_amount_in, oc)

\* A faulty is_empty: no bin sequence counts as empty.
is_empty_never(bins) == FALSE

\* self.bins.is_empty()
is_empty(bins) == bins = << >>

\* What a call on the pool gives: st, the pool as the call leaves it, the
\* SwapResult if st = "ok", and the trace and the remaining amount of the loop.
Outcome(st, err, p, result, trace, remaining) ==
    [st |-> st, err |-> err, result |-> result, pool |-> p, remaining |-> remaining,
     trace |-> trace]

\* A pool that takes a timestamp only if it is later than the stored one.
stamp_if_later(p, current_timestamp) ==
    IF Lt(p.v_parameters.last_update_timestamp, current_timestamp)
    THEN [p EXCEPT !.v_parameters.last_update_timestamp = current_timestamp]
    ELSE p

\* self.v_parameters.last_update_timestamp = current_timestamp
stamp(p, current_timestamp) ==
    [p EXCEPT !.v_parameters.last_update_timestamp = current_timestamp]

\* The end of swap_in_pool, after the loop.
swap_finish(s, current_timestamp) ==
    IF s.st # "run" THEN Outcome(s.st, s.err, s.pool, s.result, s.trace, s.remaining)
    ELSE Outcome("ok", "", stamp(s.pool, current_timestamp),
                 [s.result EXCEPT !.protocol_fee = s.acc], s.trace, s.remaining)

\* swap_in_pool from the answer u of update_references on.
swap_from(u, amount, a2b, by_amount_in, current_timestamp, oc) ==
    IF u.st # "ok" THEN Outcome(u.st, u.err, u.v, SwapResult_default, << >>, amount)
    ELSE swap_finish(
             swap_loop(LoopState(u.v, amount,
                           find_first_swap_bin_index(u.v.bins, u.v.active_id, a2b)[1]),
                       a2b, by_amount_in, oc),
             current_timestamp)

swap_in_pool(p, amount, a2b, by_amount_in, current_timestamp, oc) ==
    IF is_empty(p.bins)
    THEN Outcome("ok", "", p, [SwapResult_default EXCEPT !.is_exceed = TRUE], << >>, amount)
    ELSE swap_from(update_references(p, current_timestamp, oc),
                   amount, a2b, by_amount_in, current_timestamp, oc)

Pool_swap_exact_amount_in(p, amount_in, a2b, current_timestamp, oc) ==
    swap_in_pool(p, amount_in, a2b, TRUE, current_timestamp, oc)

Pool_swap_exact_amount_out(p, amount_out, a2b, current_timestamp, oc) ==
    swap_in_pool(p, amount_out, a2b, FALSE, current_timestamp, oc)

(***************************************************************************)
(* The state                                                               *)
(***************************************************************************)
VARIABLES
    overflow_checks,  \* the build: TRUE panics on unchecked overflow, FALSE wraps
    pool,             \* the Pool the swaps are called on
    last,             \* the last call on the pool: its arguments and outcome
    ncalls,           \* the number of calls made on the pool
    bin,              \* the Bin the single-bin swaps are called on
    blast,            \* the last call on the bin: its arguments and outcome
    bcalls,           \* the number of calls made on the bin
    mlast,            \* the last call of a function of math: arguments and answer
    slast             \* the last search for a first bin: arguments and answer

vars == <<overflow_checks, pool, last, ncalls, bin, blast, bcalls, mlast, slast>>

\* No search made yet.
NoSearch == [a2b |-> TRUE, bins |-> << >>, current_bin_index |-> 0, called |-> FALSE,
             found |-> <<None, None>>]

NoMathCall ==
    [r |-> Err("none"), x |-> Zero, rounding |-> Down, y |-> Zero, denominator |-> Zero,
     a2b |-> TRUE, op |-> "none"]

MaxBinCalls == 1

NoBinCall ==
    [r |-> [v |-> Zero, st |-> "none", err |-> ""], amount |-> Zero,
     fee_rate |-> Zero, a2b |-> TRUE, protocol_fee_rate |-> Zero, op |-> "none",
     pre |-> make_bin(0, Zero, Zero, Zero)]

\* The bins the single-bin swaps start from: the bin of the unit test, a
\* bin at the price 1.5 with an empty B side, a bin whose reserves are at
\* the top of u64, a bin without a price, a bin holding 2^62 on either
\* side and a bin of three units on either side at a price just above 1.
BinStates ==
    { make_bin(0, N(1000000), N(500000), ONE),
      make_bin(0, Pow2(62), Pow2(62), ONE),
      make_bin(0, N(3), N(3), Add(ONE, N(1))),
      make_bin(0, N(3), N(3), Pow2(62)),
      make_bin(0, N(1000), Zero, MulSmall(Pow2(63), 3)),
      make_bin(0, U64_MAX, U64_MAX, ONE),
      make_bin(0, Sub(U64_MAX, N(1000)), N(7), Add(ONE, N(1000))),
      make_bin(0, N(5), N(5), Zero) }

BinAmounts == { Zero, N(1), N(7), N(100000), N(3000000), Pow2(63), U64_MAX }

BinFeeRates ==
    { Zero, N(30000), N(300000), N(MAX_FEE_RATE), N(800000000),
      N(FEE_PRECISION - 1), N(FEE_PRECISION), N(FEE_PRECISION + 1) }

BinProtocolFeeRates == { N(1000), N(FEE_PRECISION + 1) }

BinCall(op, amount, a2b, fee_rate, protocol_fee_rate, r) ==
    /\ bin' = IF r.st = "ok" THEN r.v.bin ELSE bin
    /\ blast' = [r |-> r, amount |-> amount, fee_rate |-> fee_rate, a2b |-> a2b,
                 protocol_fee_rate |-> protocol_fee_rate, op |-> op, pre |-> bin]
    /\ bcalls' = bcalls + 1
    /\ UNCHANGED <<overflow_checks, pool, last, ncalls, mlast, slast>>

\* A caller runs bin.swap_exact_amount_in(amount_in, a2b, fee_rate, protocol_fee_rate).
BinSwapIn ==
    /\ bcalls < MaxBinCalls
    /\ blast.r.st # "panic"
    /\ \E amount_in \in BinAmounts, a2b \in BOOLEAN, fee_rate \in BinFeeRates,
          protocol_fee_rate \in BinProtocolFeeRates :
          BinCall("in", amount_in, a2b, fee_rate, protocol_fee_rate,
                  Bin_swap_exact_amount_in(bin, amount_in, a2b, fee_rate,
                                           protocol_fee_rate, overflow_checks))

\* A caller runs bin.swap_exact_amount_out(amount_out, a2b, fee_rate, protocol_fee_rate).
BinSwapOut ==
    /\ bcalls < MaxBinCalls
    /\ blast.r.st # "panic"
    /\ \E amount_out \in BinAmounts, a2b \in BOOLEAN, fee_rate \in BinFeeRates,
          protocol_fee_rate \in BinProtocolFeeRates :
          BinCall("out", amount_out, a2b, fee_rate, protocol_fee_rate,
                  Bin_swap_exact_amount_out(bin, amount_out, a2b, fee_rate,
                                            protocol_fee_rate, overflow_checks))

MaxCalls == 2

\* The configuration of the unit test of pool.rs, one with a variable fee
\* and a low cap of the accumulator, and one whose variable fee is steep.
default_bin_step ==
    BinStepConfig_new(25, 1, 60, 600, 9000, Zero, N(1000000), N(30000))

volatile_bin_step ==
    BinStepConfig_new(25, 1, 60, 600, 9000, N(40001), N(15000), N(30000))

steep_bin_step ==
    BinStepConfig_new(25, 1, 60, 600, 9000, Mul(N(40000), N(100000)),
                      N(1000000), N(30000))

\* The pool of the unit test of pool.rs.
TestPool ==
    Pool_new(0, N(30000), VariableParameters_new(default_bin_step, 0, Zero),
             << make_bin(0, N(1000000), N(500000), ONE),
                make_bin(1, N(1000000), N(2000000), Add(ONE, N(1000))) >>)

\* Three bins with a gap in the ids, the index reference two bins away.
VolatilePool ==
    Pool_new(0, N(30000), VariableParameters_new(volatile_bin_step, -2, N(100)),
             << make_bin(-1, N(400000), N(300000), Sub(ONE, N(1000))),
                make_bin(0, N(1000000), N(500000), ONE),
                make_bin(2, N(700000), Zero, Add(ONE, N(2000))) >>)

SteepPool ==
    Pool_new(1, N(30000), VariableParameters_new(steep_bin_step, 0, Zero),
             << make_bin(1, N(1000000), N(2000000), Add(ONE, N(1000))),
                make_bin(3, N(500000), N(500000), MulSmall(Pow2(63), 3)) >>)

EmptyPool ==
    Pool_new(5, N(30000), VariableParameters_new(default_bin_step, 5, N(100)), << >>)

\* Bins at the price 4 whose reserves are at the top of u64.
GiantPool ==
    Pool_new(1, N(30000), VariableParameters_new(default_bin_step, 1, Zero),
             << make_bin(0, Zero, U64_MAX, Pow2(66)),
                make_bin(1, Zero, U64_MAX, Pow2(66)),
                make_bin(2, Sub(Pow2(62), N(1)), Zero, Pow2(66)) >>)

\* Two bins above the active id, each holding 2^61 of A at 4 B per A: taking
\* both costs more B than a u64 holds.
WidePool ==
    Pool_new(0, N(30000), VariableParameters_new(default_bin_step, 0, Zero),
             << make_bin(1, Pow2(61), Zero, Pow2(66)),
                make_bin(2, Pow2(61), Zero, Pow2(66)) >>)

\* A configuration whose protocol fee rate is above FEE_PRECISION.
overcharged_bin_step ==
    BinStepConfig_new(25, 1, 60, 600, 9000, Zero, N(1000000), Add(N(FEE_PRECISION), N(1)))

\* The bins on either side of the active one have no price.
ZeroPricePool ==
    Pool_new(0, N(30000), VariableParameters_new(default_bin_step, -2, Zero),
             << make_bin(-1, N(400000), N(300000), Zero),
                make_bin(0, N(1000000), N(500000), ONE),
                make_bin(1, N(700000), N(100000), Zero) >>)

\* One bin, the index reference one bin away, the protocol fee rate invalid.
OverchargedPool ==
    Pool_new(0, N(30000), VariableParameters_new(overcharged_bin_step, 1, Zero),
             << make_bin(0, N(1000000), N(500000), ONE) >>)

\* One bin; the stored timestamp is the largest u64 and the index
\* reference three bins away.
LatePool ==
    Pool_new(0, N(30000), VariableParameters_new(volatile_bin_step, 3, U64_MAX),
             << make_bin(0, N(1000000), N(500000), ONE) >>)

Pools ==
    { TestPool, VolatilePool, SteepPool, EmptyPool, GiantPool, WidePool,
      ZeroPricePool, OverchargedPool, LatePool }

Amounts == { Zero, N(200000), N(500000), N(3000000), U64_MAX }

Timestamps == { N(10), N(200), N(1000), Pow2(63) }

NoCall ==
    [r |-> Outcome("none", "", EmptyPool, SwapResult_default, << >>, Zero),
     amount |-> Zero, a2b |-> TRUE, op |-> "none", pre |-> EmptyPool, ts |-> Zero]

PoolCall(op, amount, a2b, ts, r) ==
    /\ pool' = r.pool
    /\ last' = [r |-> r, amount |-> amount, a2b |-> a2b, op |-> op,
                pre |-> pool, ts |-> ts]
    /\ ncalls' = ncalls + 1
    /\ UNCHANGED <<overflow_checks, bin, blast, bcalls, mlast, slast>>

\* A caller runs pool.swap_exact_amount_in(amount_in, a2b, current_timestamp).
SwapExactAmountIn ==
    /\ ncalls < MaxCalls
    /\ last.r.st # "panic"
    /\ \E amount_in \in Amounts, a2b \in BOOLEAN, current_timestamp \in Timestamps :
          PoolCall("in", amount_in, a2b, current_timestamp,
                   Pool_swap_exact_amount_in(pool, amount_in, a2b,
                                             current_timestamp, overflow_checks))

\* A caller runs pool.swap_exact_amount_out(amount_out, a2b, current_timestamp).
SwapExactAmountOut ==
    /\ ncalls < MaxCalls
    /\ last.r.st # "panic"
    /\ \E amount_out \in Amounts, a2b \in BOOLEAN, current_timestamp \in Timestamps :
          PoolCall("out", amount_out, a2b, current_timestamp,
                   Pool_swap_exact_amount_out(pool, amount_out, a2b,
                                              current_timestamp, overflow_checks))

\* The swaps of a pool: any build, any of the pools, no call made yet.
Init ==
    /\ overflow_checks \in BOOLEAN
    /\ pool \in Pools
    /\ last = NoCall
    /\ ncalls = 0
    /\ bin = make_bin(0, Zero, Zero, Zero)
    /\ blast = NoBinCall
    /\ bcalls = 0
    /\ mlast = NoMathCall
    /\ slast = NoSearch

Next == SwapExactAmountIn \/ SwapExactAmountOut

Spec == Init /\ [][Next]_vars

\* The swaps of a single bin, at any fee rate.
InitBin ==
    /\ overflow_checks \in BOOLEAN
    /\ bin \in BinStates
    /\ blast = NoBinCall
    /\ bcalls = 0
    /\ pool = EmptyPool
    /\ last = NoCall
    /\ ncalls = 0
    /\ mlast = NoMathCall
    /\ slast = NoSearch

NextBin == BinSwapIn \/ BinSwapOut

BinSpec == InitBin /\ [][NextBin]_vars

\* The u128 arguments mul_div is called with, the amounts and the prices of
\* the conversions: those of the unit tests of dlmm_math.rs, 0, and the
\* ends of the types.
Words ==
    { Zero, N(1), N(7), N(1000000), ONE, U64_MAX, Pow2(127), U128_MAX }

Denominators ==
    { Zero, N(1), N(3), N(FEE_PRECISION), ONE, Pow2(127), U128_MAX }

MathAmounts ==
    { Zero, N(1), N(1000000), Mul(N(1000000), N(1000000)), U64_MAX }

Prices ==
    { Zero, N(1), ONE, Sub(ONE, N(1)), Add(ONE, N(1)), Pow2(65), Sub(Pow2(65), N(1)),
      Div(U64_MAX, N(2)), Div(U64_MAX, N(3)),
      Add(Mul(N(133333333), ONE), Div(U64_MAX, N(3))), U128_MAX }

MathCall(op, x, y, denominator, rounding, a2b, r) ==
    /\ mlast' = [r |-> r, x |-> x, rounding |-> rounding, y |-> y,
                 denominator |-> denominator, a2b |-> a2b, op |-> op]
    /\ UNCHANGED <<overflow_checks, pool, last, ncalls, bin, blast, bcalls, slast>>

\* mul_div(x, y, denominator, rounding)
MulDiv ==
    \E x \in Words, y \in Words, denominator \in Denominators, rounding \in {Up, Down} :
        MathCall("mul_div", x, y, denominator, rounding, TRUE,
                 mul_div(x, y, denominator, rounding))

\* calculate_amount_in(amount_out, price, a2b)
CalculateAmountIn ==
    \E amount_out \in MathAmounts, price \in Prices, a2b \in BOOLEAN :
        MathCall("calculate_amount_in", amount_out, price, Zero, Up, a2b,
                 calculate_amount_in(amount_out, price, a2b))

\* calculate_amount_out(amount_in, price, a2b)
CalculateAmountOut ==
    \E amount_in \in MathAmounts, price \in Prices, a2b \in BOOLEAN :
        MathCall("calculate_amount_out", amount_in, price, Zero, Down, a2b,
                 calculate_amount_out(amount_in, price, a2b))

\* The functions of math, called with any of the arguments.
InitMath ==
    /\ overflow_checks \in BOOLEAN
    /\ mlast = NoMathCall
    /\ slast = NoSearch
    /\ pool = EmptyPool
    /\ last = NoCall
    /\ ncalls = 0
    /\ bin = make_bin(0, Zero, Zero, Zero)
    /\ blast = NoBinCall
    /\ bcalls = 0

NextMath == MulDiv \/ CalculateAmountIn \/ CalculateAmountOut

MathSpec == InitMath /\ [][NextMath]_vars

(***************************************************************************)
(* The search for the first bin of a swap                                  *)
(***************************************************************************)
MaxId == 3
MinId == -MaxId

I32_MIN == -2147483647 - 1
I32_MAX == 2147483647

\* The bins with the ids of the set ids, in ascending order of id.
RECURSIVE BinsOf(_)
BinsOf(ids) ==
    IF ids = {} THEN << >>
    ELSE Let(CHOOSE m \in ids : \A i \in ids : m <= i, LAMBDA m :
             << make_bin(m, Zero, Zero, ONE) >> \o BinsOf(ids \ {m}))

\* Bin sequences sorted ascending by id without duplicates: every set of
\* ids between MinId and MaxId, and the ids at the ends of i32.
BinSequences ==
    { BinsOf(ids) : ids \in SUBSET (MinId..MaxId) }
        \cup { BinsOf({I32_MIN, I32_MAX}), BinsOf({I32_MIN, 0, I32_MAX}),
               BinsOf({I32_MIN}), BinsOf({I32_MAX}) }

ActiveIds == ((MinId - 1)..(MaxId + 1)) \cup {I32_MIN, I32_MAX}

\* self.find_first_swap_bin_index(current_bin_index, a2b) on a pool with
\* bins, once: the search reads the bins and changes nothing.
FindFirstSwapBin ==
    /\ ~slast.called
    /\ \E bins \in BinSequences, current_bin_index \in ActiveIds, a2b \in BOOLEAN :
        /\ slast' = [a2b |-> a2b, bins |-> bins, current_bin_index |-> current_bin_index,
                     called |-> TRUE,
                     found |-> find_first_swap_bin_index(bins, current_bin_index, a2b)]
        /\ UNCHANGED <<overflow_checks, pool, last, ncalls, bin, blast, bcalls, mlast>>

InitSearch ==
    /\ overflow_checks \in BOOLEAN
    /\ slast = NoSearch
    /\ pool = EmptyPool
    /\ last = NoCall
    /\ ncalls = 0
    /\ bin = make_bin(0, Zero, Zero, Zero)
    /\ blast = NoBinCall
    /\ bcalls = 0
    /\ mlast = NoMathCall

NextSearch == FindFirstSwapBin

SearchSpec == InitSearch /\ [][NextSearch]_vars

Called == last.op # "none"

Succeeded == Called /\ last.r.st = "ok"

BinCalled == blast.op # "none"

BinSucceeded == BinCalled /\ blast.r.st = "ok"

\* C1: a successful single-bin swap gives out at most the output-side reserve
\* held before the call, the reserve left is the old one less amount_out
\* (no underflow), and swap_exact_amount_out gives exactly
\* min(requested amount_out, output-side reserve).
C1_OutWithinReserve ==
    BinSucceeded =>
        /\ Le(blast.r.v.amount_out, reserve_out(blast.pre, blast.a2b))
        /\ reserve_out(bin, blast.a2b)
             = Sub(reserve_out(blast.pre, blast.a2b), blast.r.v.amount_out)
        /\ blast.op = "out" =>
             blast.r.v.amount_out = Min(blast.amount, reserve_out(blast.pre, blast.a2b))

\* A successful swap_exact_amount_out asked for more than the bin holds and
\* given the whole reserve.
C1_Witness ==
    /\ BinSucceeded
    /\ blast.op = "out"
    /\ Lt(reserve_out(blast.pre, blast.a2b), blast.amount)
    /\ reserve_out(blast.pre, blast.a2b) # Zero
    /\ blast.r.v.amount_out = reserve_out(blast.pre, blast.a2b)
    /\ reserve_out(bin, blast.a2b) = Zero

\* C5: after a successful single-bin swap the input-side reserve is its old
\* value + amount_in - fee and the output-side reserve its old value -
\* amount_out.
C5_ReservesSettled ==
    BinSucceeded =>
        /\ Add(reserve_in(bin, blast.a2b), blast.r.v.fee)
             = Add(reserve_in(blast.pre, blast.a2b), blast.r.v.amount_in)
        /\ Add(reserve_out(bin, blast.a2b), blast.r.v.amount_out)
             = reserve_out(blast.pre, blast.a2b)

(***************************************************************************)
(* The last call on the pool, as the claims read it                        *)
(***************************************************************************)
Result == last.r.result

Steps == last.r.result.steps

\* What the call filled of its request: input in exact-in mode, output in
\* exact-out mode.
Filled == IF last.op = "in" THEN Result.amount_in ELSE Result.amount_out

RECURSIVE Total(_)
Total(seq) == IF seq = << >> THEN Zero ELSE Add(Head(seq), Total(Tail(seq)))

\* The ids of the bins the call can reach from the active bin it started at.
ReachableIds ==
    { last.pre.bins[i].id : i \in { j \in 1..Len(last.pre.bins) :
          IF last.a2b THEN last.pre.bins[j].id <= last.pre.active_id
                      ELSE last.pre.bins[j].id > last.pre.active_id } }

TriedIds == { Steps[i].bin_id : i \in 1..Len(Steps) }

PriceOf(bin_id) ==
    last.pre.bins[CHOOSE i \in 1..Len(last.pre.bins) : last.pre.bins[i].id = bin_id].price

\* x of the input token at the price, in output token, rounded down.
ConvertDown(x, price, a2b) ==
    IF a2b THEN Div(Mul(x, price), ONE) ELSE Div(Mul(x, ONE), price)

\* C2: a successful pool swap fills at most the requested amount, and all of
\* it unless is_exceed; with is_exceed the result carries the totals of the
\* steps of the bins visited.
C2_FilledWithinRequest ==
    Succeeded =>
        /\ Le(Filled, last.amount)
        /\ ~Result.is_exceed => Filled = last.amount
        /\ Result.is_exceed =>
             /\ Result.amount_in = Total([i \in 1..Len(Steps) |-> Steps[i].amount_in])
             /\ Result.amount_out = Total([i \in 1..Len(Steps) |-> Steps[i].amount_out])

\* C3 as stated: a successful pool swap is marked is_exceed exactly when a
\* positive part of the request is unfilled after every reachable bin has
\* been tried.
C3_ExceedIffUnfilled ==
    Succeeded =>
        (Result.is_exceed <=> (Lt(Filled, last.amount) /\ TriedIds = ReachableIds))

\* C3, amended: a successful pool swap is marked is_exceed exactly when the
\* pool has no bins, or a positive part of the request is unfilled after
\* every reachable bin has been tried; a swap that fills its request is not
\* marked, also when it empties the last bin.
C3_ExceedIffEmptyOrUnfilled ==
    Succeeded =>
        /\ Result.is_exceed <=>
             \/ last.pre.bins = << >>
             \/ Lt(Filled, last.amount) /\ TriedIds = ReachableIds
        /\ (last.pre.bins # << >> /\ Filled = last.amount) => ~Result.is_exceed

\* A successful swap that takes exactly what the last reachable bin holds:
\* the bin is left empty and the result is not marked.
C3_Witness ==
    /\ Succeeded
    /\ last.amount # Zero
    /\ Filled = last.amount
    /\ TriedIds = ReachableIds
    /\ Len(Steps) >= 1
    /\ \E i \in 1..Len(pool.bins) :
          /\ pool.bins[i].id = Steps[Len(Steps)].bin_id
          /\ reserve_out(pool.bins[i], last.a2b) = Zero
          /\ reserve_out(last.pre.bins[i], last.a2b) # Zero
    /\ ~Result.is_exceed

\* C4: in every step of a successful swap the output is at most the input
\* less the fee, converted at the price of the bin and rounded down.
C4_NoOverpay ==
    Succeeded =>
        \A i \in 1..Len(Steps) :
            /\ Le(Steps[i].fee, Steps[i].amount_in)
            /\ Le(Steps[i].amount_out,
                  ConvertDown(Sub(Steps[i].amount_in, Steps[i].fee),
                              PriceOf(Steps[i].bin_id), last.a2b))

\* C6: the iterations of a swap call visit bins of strictly decreasing
\* (a->b) or strictly increasing (b->a) id, at most as many as the pool
\* holds, and the steps of the result are the bins visited.
C6_EachBinOnce ==
    Called =>
        /\ Len(last.r.trace) <= Len(last.pre.bins)
        /\ \A i \in 1..(Len(last.r.trace) - 1) :
              IF last.a2b THEN last.r.trace[i + 1].bin_id < last.r.trace[i].bin_id
                          ELSE last.r.trace[i + 1].bin_id > last.r.trace[i].bin_id
        /\ last.r.st = "ok" =>
              /\ Len(Steps) = Len(last.r.trace)
              /\ \A i \in 1..Len(Steps) : Steps[i].bin_id = last.r.trace[i].bin_id

\* A successful a->b swap of two steps or more.
C6_Witness == Succeeded /\ last.a2b /\ Len(Steps) >= 2

\* C7: a swap on a pool without bins succeeds with is_exceed, zero amounts
\* and no steps, and leaves the pool as it was.
C7_EmptyPool ==
    (Called /\ last.pre.bins = << >>) =>
        /\ last.r.st = "ok"
        /\ Result = [SwapResult_default EXCEPT !.is_exceed = TRUE]
        /\ pool = last.pre

\* A swap of the amount 0 on a pool without bins, at a timestamp that is not
\* the stored one.
C7_Witness ==
    /\ Called
    /\ last.pre.bins = << >>
    /\ last.amount = Zero
    /\ last.ts # last.pre.v_parameters.last_update_timestamp

\* C8: volatility_accumulator <= max_volatility_accumulator in every state.
C8_AccumulatorCapped ==
    Le(pool.v_parameters.volatility_accumulator,
       pool.v_parameters.bin_step_config.max_volatility_accumulator)

\* A swap has left the accumulator at the maximum, below the value the
\* references give.
C8_Witness ==
    /\ Called
    /\ pool.v_parameters.volatility_accumulator
         = pool.v_parameters.bin_step_config.max_volatility_accumulator
    /\ \E i \in 1..Len(last.r.trace) :
          Lt(pool.v_parameters.bin_step_config.max_volatility_accumulator,
             Add(last.pre.v_parameters.volatility_reference,
                 Mul(N(Abs(pool.v_parameters.index_reference - last.r.trace[i].active_id)),
                     N(BASIS_POINT_MAX))))

\* C9 as stated: last_update_timestamp never decreases from one state to
\* the next, whatever the timestamps of the calls.
C9_TimestampMonotone ==
    [][Le(pool.v_parameters.last_update_timestamp,
          pool'.v_parameters.last_update_timestamp)]_vars

\* C9, amended: a successful swap on a pool with bins stores the timestamp
\* of the call, also one that is not later than the stored one; a swap on a
\* pool without bins and a failed swap leave the stored timestamp as it
\* was; so a call with a timestamp not earlier than the stored one never
\* decreases it.
C9_TimestampStored ==
    Called =>
        /\ pool.v_parameters.last_update_timestamp
             = IF last.r.st = "ok" /\ last.pre.bins # << >>
               THEN last.ts
               ELSE last.pre.v_parameters.last_update_timestamp
        /\ Le(last.pre.v_parameters.last_update_timestamp, last.ts) =>
             Le(last.pre.v_parameters.last_update_timestamp,
                pool.v_parameters.last_update_timestamp)

\* A successful swap with a timestamp earlier than the stored one: the
\* stored timestamp has decreased.
C9_Witness ==
    /\ Succeeded
    /\ Lt(last.ts, last.pre.v_parameters.last_update_timestamp)
    /\ pool.v_parameters.last_update_timestamp = last.ts

\* ceil(a / b)
CeilDiv(a, b) == IF Mod(a, b) = Zero THEN Div(a, b) ELSE Add(Div(a, b), N(1))

\* The variable fee as specified, from the accumulator va.
SpecVariableFee(s_params, va) ==
    IF s_params.variable_fee_control = Zero THEN Zero
    ELSE CeilDiv(Mul(s_params.variable_fee_control,
                     Mul(Mul(va, N(s_params.bin_step)), Mul(va, N(s_params.bin_step)))),
                 Mul(N(100000), N(1000000)))

\* C10: the fee rate every bin is priced with is min(base_fee_rate +
\* variable_fee, MAX_FEE_RATE), the variable fee being 0 without a variable
\* fee control and ceil(control * (accumulator * bin_step)^2 / 10^11) with
\* one; it is at most MAX_FEE_RATE.
C10_TotalFeeRate ==
    Called =>
        \A i \in 1..Len(last.r.trace) :
            /\ last.r.trace[i].fee_rate
                 = Min(Add(last.pre.base_fee_rate,
                           SpecVariableFee(last.pre.v_parameters.bin_step_config,
                                           last.r.trace[i].volatility_accumulator)),
                       N(MAX_FEE_RATE))
            /\ Le(last.r.trace[i].fee_rate, N(MAX_FEE_RATE))

\* A bin priced below the maximum with a variable fee that was rounded up.
C10_Witness ==
    /\ Called
    /\ \E i \in 1..Len(last.r.trace) :
          /\ last.r.trace[i].dy_fee_rate # Zero
          /\ Lt(last.r.trace[i].fee_rate, N(MAX_FEE_RATE))
          /\ Mod(Mul(last.pre.v_parameters.bin_step_config.variable_fee_control,
                     Mul(Mul(last.r.trace[i].volatility_accumulator, N(25)),
                         Mul(last.r.trace[i].volatility_accumulator, N(25)))),
                 Mul(N(100000), N(1000000))) # Zero

\* A call on the pool has failed on an invalid input: a bin without a price,
\* or a fee rate above FEE_PRECISION.
RejectedInput ==
    /\ Called
    /\ last.r.st = "err"
    /\ last.r.err \in {"price is zero", "fee_rate is greater than FEE_PRECISION"}

\* C11: a pool swap that fails on an invalid input leaves the reserves of
\* every bin, active_id and the volatility parameters as they were before
\* the call.
C11_RejectedUntouched ==
    RejectedInput =>
        /\ pool.bins = last.pre.bins
        /\ pool.active_id = last.pre.active_id
        /\ pool.v_parameters = last.pre.v_parameters

\* The last call on the pool again, from the same pool, in a build with
\* overflow checks: it panics exactly if one of the unchecked +, - and +=
\* of the call does not fit its type.
LastCallChecked ==
    swap_in_pool(last.pre, last.amount, last.a2b, last.op = "in", last.ts, TRUE)

\* C12: a swap call in which an unchecked sum or difference does not fit
\* its type returns an error.
C12_OverflowSurfaced ==
    (Called /\ LastCallChecked.st = "panic") => last.r.st = "err"

\* C13: a single-bin swap called with a fee_rate above FEE_PRECISION
\* returns an error and leaves the bin as it was.
C13_FeeRateRejected ==
    (BinCalled /\ Lt(N(FEE_PRECISION), blast.fee_rate)) =>
        /\ blast.r.st = "err"
        /\ bin = blast.pre

\* A successful Bin::swap_exact_amount_in at a price and a valid fee rate.
BinSwappedIn ==
    /\ BinSucceeded
    /\ blast.op = "in"
    /\ blast.pre.price # Zero
    /\ Le(blast.fee_rate, N(FEE_PRECISION))

\* C14 as stated: the fee returned is positive if fee_rate and the amount_in
\* argument are, and 0 if fee_rate or the amount_in argument is 0.
C14_FeePositive ==
    BinSwappedIn =>
        /\ (blast.fee_rate # Zero /\ blast.amount # Zero) => blast.r.v.fee # Zero
        /\ (blast.fee_rate = Zero \/ blast.amount = Zero) => blast.r.v.fee = Zero

\* C14, amended: the fee returned is positive if fee_rate and the amount_in
\* returned, the input actually taken, are positive, and 0 if fee_rate or
\* the amount_in argument is 0; with a positive fee_rate and amount_in
\* argument the fee is 0 only on a bin whose output-side reserve is empty,
\* where nothing is taken and nothing is given.
C14_FeeCharged ==
    BinSwappedIn =>
        /\ (blast.fee_rate # Zero /\ blast.r.v.amount_in # Zero) => blast.r.v.fee # Zero
        /\ (blast.fee_rate = Zero \/ blast.amount = Zero) => blast.r.v.fee = Zero
        /\ (blast.fee_rate # Zero /\ blast.amount # Zero /\ blast.r.v.fee = Zero) =>
              /\ reserve_out(blast.pre, blast.a2b) = Zero
              /\ blast.r.v.amount_in = Zero
              /\ blast.r.v.amount_out = Zero

\* A swap of a positive amount at a positive fee rate on a bin whose
\* output side is empty: no input is taken and no fee is charged.
C14_Witness ==
    /\ BinSwappedIn
    /\ blast.fee_rate # Zero
    /\ blast.amount # Zero
    /\ reserve_out(blast.pre, blast.a2b) = Zero
    /\ blast.r.v.fee = Zero
    /\ blast.r.v.amount_in = Zero

\* The id of the bin a call starts at: the nearest reachable one.
StartId ==
    CHOOSE id \in ReachableIds :
        \A other \in ReachableIds : IF last.a2b THEN other <= id ELSE other >= id

StartIdx == CHOOSE i \in 1..Len(last.pre.bins) : last.pre.bins[i].id = StartId

\* The requested input less the inclusive fee at the rate the first bin was
\* priced with, converted at the price of the starting bin, rounded down.
ConvertedAtStart ==
    IF last.amount = Zero THEN Zero
    ELSE ConvertDown(Sub(last.amount,
                         CeilDiv(Mul(last.amount, last.r.trace[1].fee_rate),
                                 N(FEE_PRECISION))),
                     last.pre.bins[StartIdx].price, last.a2b)

\* A successful exact-in swap whose fee-net input, converted, is within the
\* output-side reserve of the starting bin.
FitsStartBin ==
    /\ Succeeded
    /\ last.op = "in"
    /\ ReachableIds # {}
    /\ last.pre.bins[StartIdx].price # Zero
    /\ Le(ConvertedAtStart, reserve_out(last.pre.bins[StartIdx], last.a2b))

\* What C15 says of a swap that fits the starting bin.
FilledInStartBin ==
    /\ Len(Steps) = 1
    /\ Steps[1].bin_id = StartId
    /\ Result.amount_in = last.amount
    /\ ~Result.is_exceed
    /\ ConvertedAtStart # Zero => Result.amount_out # Zero
    /\ \A i \in 1..Len(pool.bins) : i # StartIdx => pool.bins[i] = last.pre.bins[i]

C16_NoReferenceUpdate ==
    (Called /\ last.pre.bins # << >>
            /\ Le(last.ts, last.pre.v_parameters.last_update_timestamp)) =>
        /\ pool.v_parameters.index_reference = last.pre.v_parameters.index_reference
        /\ pool.v_parameters.volatility_reference
             = last.pre.v_parameters.volatility_reference

\* The last call of mul_div: its product in full, and the answer of
\* mul_div to the same arguments with the other rounding.
MulDivCalled == mlast.op = "mul_div"

FullProduct == Mul(mlast.x, mlast.y)

RoundedQuotient ==
    IF mlast.rounding = Up THEN CeilDiv(FullProduct, mlast.denominator)
    ELSE Div(FullProduct, mlast.denominator)

OtherRounding ==
    mul_div(mlast.x, mlast.y, mlast.denominator, IF mlast.rounding = Up THEN Down ELSE Up)

\* C17: mul_div answers None exactly if the denominator is 0 or the rounded
\* quotient of the full product exceeds u128::MAX; otherwise round-down
\* answers the q with q * d <= x * y < (q + 1) * d and round-up the q with
\* (q - 1) * d < x * y <= q * d; round-up is round-down or round-down + 1,
\* and equal to it if d divides x * y.
C17_MulDiv ==
    MulDivCalled =>
        /\ mlast.r.st # "ok" <=>
              (mlast.denominator = Zero \/ Lt(U128_MAX, RoundedQuotient))
        /\ mlast.r.st = "ok" =>
              /\ mlast.r.v = RoundedQuotient
              /\ mlast.rounding = Down =>
                    /\ Le(Mul(mlast.r.v, mlast.denominator), FullProduct)
                    /\ Lt(FullProduct, Mul(Add(mlast.r.v, N(1)), mlast.denominator))
              /\ mlast.rounding = Up =>
                    /\ Le(FullProduct, Mul(mlast.r.v, mlast.denominator))
                    /\ mlast.r.v # Zero =>
                          Lt(Mul(Sub(mlast.r.v, N(1)), mlast.denominator), FullProduct)
        /\ (mlast.r.st = "ok" /\ mlast.rounding = Up) =>
              /\ OtherRounding.st = "ok"
              /\ Le(OtherRounding.v, mlast.r.v)
              /\ Le(mlast.r.v, Add(OtherRounding.v, N(1)))
              /\ Mod(FullProduct, mlast.denominator) = Zero => mlast.r.v = OtherRounding.v

\* A round-up of a product above 2^128 that its denominator does not
\* divide: the answer is one above the round-down.
C17_Witness ==
    /\ MulDivCalled
    /\ mlast.rounding = Up
    /\ mlast.r.st = "ok"
    /\ Lt(U128_MAX, FullProduct)
    /\ Mod(FullProduct, mlast.denominator) # Zero
    /\ mlast.r.v = Add(OtherRounding.v, N(1))

\* The last call of a conversion, at a price above 0: mlast.x is the amount
\* and mlast.y the price.
ConversionCalled ==
    /\ mlast.op \in {"calculate_amount_in", "calculate_amount_out"}
    /\ mlast.y # Zero

\* The amount converted as specified: the output rounded down, the input
\* rounded up; B per A is price / 2^64.
SpecConversion ==
    IF mlast.op = "calculate_amount_out"
    THEN (IF mlast.a2b THEN Div(Mul(mlast.x, mlast.y), ONE)
                       ELSE Div(Mul(mlast.x, ONE), mlast.y))
    ELSE (IF mlast.a2b THEN CeilDiv(Mul(mlast.x, ONE), mlast.y)
                       ELSE CeilDiv(Mul(mlast.x, mlast.y), ONE))

\* C18: at a price above 0 a conversion answers the amount converted as
\* specified if that is at most u64::MAX and an error otherwise; at the
\* price 2^64 it answers the amount itself, and for the amount 0 it answers 0.
C18_Conversions ==
    ConversionCalled =>
        /\ IF Le(SpecConversion, U64_MAX)
           THEN mlast.r = Ok(SpecConversion)
           ELSE mlast.r.st = "err"
        /\ mlast.y = ONE => mlast.r = Ok(mlast.x)
        /\ mlast.x = Zero => mlast.r = Ok(Zero)

\* calculate_amount_in(1_000_000, (1 << 64) - 1, true) == 1_000_001 of the
\* unit test: an input that was rounded up.
C18_Witness ==
    /\ ConversionCalled
    /\ mlast.op = "calculate_amount_in"
    /\ mlast.a2b
    /\ mlast.x = N(1000000)
    /\ mlast.y = Sub(ONE, N(1))
    /\ mlast.r = Ok(N(1000001))

\* The accumulator as specified for the bin id: the volatility reference
\* plus 10000 per bin between the index reference and id, at most the
\* maximum.  The loop changes neither reference, so the pool as the call
\* leaves it holds the ones every step was priced with.
SpecAccumulator(id) ==
    Min(Add(pool.v_parameters.volatility_reference,
            Mul(N(Abs(pool.v_parameters.index_reference - id)), N(BASIS_POINT_MAX))),
        pool.v_parameters.bin_step_config.max_volatility_accumulator)

\* Step i of the last call was priced with the fee of the accumulator acc.
PricedWith(i, acc) ==
    /\ last.r.trace[i].volatility_accumulator = acc
    /\ last.r.trace[i].fee_rate
         = Min(Add(last.pre.base_fee_rate,
                   SpecVariableFee(last.pre.v_parameters.bin_step_config, acc)),
               N(MAX_FEE_RATE))
    /\ last.r.st = "ok" =>
          Steps[i].var_fee_rate
            = AsU64(SpecVariableFee(last.pre.v_parameters.bin_step_config, acc))

\* C19 as stated: every step is priced with the accumulator of the distance
\* between the index reference and the id of the bin the step swaps.
C19_AccumulatorOfPricedBin ==
    Called =>
        \A i \in 1..Len(last.r.trace) :
            PricedWith(i, SpecAccumulator(last.r.trace[i].bin_id))

\* What update_volatility_accumulator does: every step is priced with the
\* accumulator of the distance between the index reference and active_id,
\* which is the id of the bin the step swaps in every step after the first,
\* and in the first step the active_id the call found.
AccumulatorOfActiveId ==
    Called =>
        \A i \in 1..Len(last.r.trace) :
            /\ PricedWith(i, SpecAccumulator(last.r.trace[i].active_id))
            /\ last.r.trace[i].active_id
                 = IF i = 1 THEN last.pre.active_id ELSE last.r.trace[i].bin_id

\* The last call was Bin::swap_exact_amount_in at a price and a valid fee
\* rate, and the output computed for amount_in was above the reserve.
BinClippedIn ==
    /\ BinCalled
    /\ blast.op = "in"
    /\ blast.pre.price # Zero
    /\ Le(blast.fee_rate, N(FEE_PRECISION))
    /\ Lt(reserve_out(blast.pre, blast.a2b),
          calculate_amount_out(Sub(blast.amount,
                                   calculate_fee_inclusive(blast.amount, blast.fee_rate).v),
                               blast.pre.price, blast.a2b).v)

\* C20: Bin::swap_exact_amount_in at a price > 0 and a fee_rate <=
\* FEE_PRECISION never returns the error "amount_in_with_fee is greater
\* than amount_in", and the amount_in it returns is at most the amount_in
\* requested; when the output computed exceeds the reserve, the input that
\* drains the reserve plus its exclusive fee is at most the request.
C20_NoLogicFault ==
    (BinCalled /\ blast.op = "in" /\ blast.pre.price # Zero
        /\ Le(blast.fee_rate, N(FEE_PRECISION))) =>
        /\ blast.r.err # "amount_in_with_fee is greater than amount_in"
        /\ blast.r.st = "ok" => Le(blast.r.v.amount_in, blast.amount)
        /\ BinClippedIn =>
              Le(Add(calculate_amount_in(reserve_out(blast.pre, blast.a2b),
                                         blast.pre.price, blast.a2b).v,
                     calculate_fee_exclusive(
                         calculate_amount_in(reserve_out(blast.pre, blast.a2b),
                                             blast.pre.price, blast.a2b).v,
                         blast.fee_rate).v),
                 blast.amount)

\* A swap whose computed output was above a positive reserve: the bin is
\* drained for less than the amount requested, fee included.
C20_Witness ==
    /\ BinClippedIn
    /\ blast.r.st = "ok"
    /\ blast.fee_rate # Zero
    /\ reserve_out(blast.pre, blast.a2b) # Zero
    /\ blast.r.v.amount_out = reserve_out(blast.pre, blast.a2b)
    /\ reserve_out(bin, blast.a2b) = Zero
    /\ blast.r.v.fee # Zero
    /\ Lt(blast.r.v.amount_in, blast.amount)

\* The last call was a swap at a timestamp after the stored one that did
\* not end in a panic.
CalledLater ==
    /\ Called
    /\ last.r.st # "panic"
    /\ Lt(last.pre.v_parameters.last_update_timestamp, last.ts)

Elapsed == Sub(last.ts, last.pre.v_parameters.last_update_timestamp)

\* The pair (index_reference, volatility_reference) as specified for the
\* last call: after the filter period the active id at call entry and the
\* accumulator decayed, within the decay period, or 0; before it, the pair
\* the call found.
SpecReferences ==
    IF Le(N(last.pre.v_parameters.bin_step_config.filter_period), Elapsed)
    THEN << last.pre.active_id,
            IF Lt(Elapsed, N(last.pre.v_parameters.bin_step_config.decay_period))
            THEN Div(Mul(last.pre.v_parameters.volatility_accumulator,
                         N(last.pre.v_parameters.bin_step_config.reduction_factor)),
                     N(BASIS_POINT_MAX))
            ELSE Zero >>
    ELSE << last.pre.v_parameters.index_reference,
            last.pre.v_parameters.volatility_reference >>

\* C21: a swap at a timestamp above the stored one leaves the references
\* as specified for elapsed = timestamp - last_update_timestamp: reset and
\* decayed at or after the filter period, untouched before it.
C21_ReferencesUpdated ==
    CalledLater =>
        << pool.v_parameters.index_reference, pool.v_parameters.volatility_reference >>
            = SpecReferences

Trace == last.r.trace

\* C22: in a swap that does not panic active_id is, at every bin priced
\* after the first, the id of that bin, the next in the direction of
\* travel, reached with a positive remaining amount, and the swap leaves
\* it there; a successful swap of two or more steps leaves the bin_id of
\* its last step, one of at most one step the active_id it found; active_id
\* never increases in an a->b swap and never decreases in a b->a swap.
C22_ActiveIdFollows ==
    (Called /\ last.r.st # "panic") =>
        /\ \A i \in 1..Len(Trace) :
              /\ Trace[i].active_id
                   = IF i = 1 THEN last.pre.active_id ELSE Trace[i].bin_id
              /\ Trace[i].remaining # Zero
              /\ i > 1 => Trace[i].bin_idx
                            = Trace[i - 1].bin_idx + (IF last.a2b THEN -1 ELSE 1)
              /\ i > 1 => IF last.a2b THEN Trace[i].bin_id < Trace[i - 1].bin_id
                                      ELSE Trace[i].bin_id > Trace[i - 1].bin_id
        /\ pool.active_id
             = IF Trace = << >> THEN last.pre.active_id ELSE Trace[Len(Trace)].active_id
        /\ IF last.a2b THEN pool.active_id <= last.pre.active_id
                       ELSE pool.active_id >= last.pre.active_id
        /\ last.r.st = "ok" =>
              /\ Len(Steps) = Len(Trace)
              /\ Len(Steps) >= 2 => pool.active_id = Steps[Len(Steps)].bin_id
              /\ Len(Steps) <= 1 => pool.active_id = last.pre.active_id

\* An a->b swap of two steps: active_id has gone down to the bin of the
\* second step.
C22_Witness ==
    /\ Succeeded
    /\ last.a2b
    /\ Len(Steps) >= 2
    /\ pool.active_id = Steps[Len(Steps)].bin_id
    /\ pool.active_id < last.pre.active_id

\* The indices, counted from 0, of the bins the last search may start at:
\* those with an id at or below current_bin_index for a->b, above it for b->a.
Candidates ==
    { i \in 0..(Len(slast.bins) - 1) :
        IF slast.a2b THEN slast.bins[i + 1].id <= slast.current_bin_index
                     ELSE slast.bins[i + 1].id > slast.current_bin_index }

\* The answer of a linear search: the candidate with the largest id for
\* a->b, with the smallest id for b->a, none if there is no candidate.
LinearSearch ==
    IF Candidates = {} THEN None
    ELSE Some(CHOOSE i \in Candidates :
                \A j \in Candidates :
                    IF slast.a2b THEN slast.bins[j + 1].id <= slast.bins[i + 1].id
                                 ELSE slast.bins[i + 1].id <= slast.bins[j + 1].id)

\* C23: on a bin sequence sorted ascending by id without duplicates
\* find_first_swap_bin_index answers what a linear search answers: the bin
\* with the largest id <= the active id for a->b, the bin with the smallest
\* id > the active id for b->a, no index exactly if there is no such bin;
\* the index it answers is one of the sequence.
C23_SearchAgrees ==
    slast.called =>
        /\ slast.found[1] = LinearSearch
        /\ slast.found[1].some => slast.found[1].v \in 0..(Len(slast.bins) - 1)

\* A b->a search in five bins or more that answers a bin which is neither
\* the first nor the last, and an a->b search that answers none.
C23_Witness ==
    /\ slast.called
    /\ ~slast.a2b
    /\ Len(slast.bins) >= 5
    /\ slast.found[1].some
    /\ slast.found[1].v \notin {0, Len(slast.bins) - 1}
    /\ slast.bins[slast.found[1].v + 1].id > slast.current_bin_index + 1

\* The bin with the id bin_id as the last call left it.
BinAfter(bin_id) ==
    pool.bins[CHOOSE i \in 1..Len(pool.bins) : pool.bins[i].id = bin_id]

BinBefore(bin_id) ==
    last.pre.bins[CHOOSE i \in 1..Len(last.pre.bins) : last.pre.bins[i].id = bin_id]

\* C24: after a successful pool swap every bin of result.steps but the
\* last holds nothing of the output token.
C24_CrossedBinsDrained ==
    Succeeded =>
        \A i \in 1..(Len(Steps) - 1) :
            reserve_out(BinAfter(Steps[i].bin_id), last.a2b) = Zero

\* A swap of two steps that took all the first bin held of the output
\* token and left some in the second.
C24_Witness ==
    /\ Succeeded
    /\ Len(Steps) = 2
    /\ reserve_out(BinBefore(Steps[1].bin_id), last.a2b) # Zero
    /\ Steps[1].amount_out = reserve_out(BinBefore(Steps[1].bin_id), last.a2b)
    /\ reserve_out(BinAfter(Steps[1].bin_id), last.a2b) = Zero
    /\ reserve_out(BinAfter(Steps[2].bin_id), last.a2b) # Zero

\* What a swap has no business with in bin b: all but the two reserves.
CarriedFields(b) ==
    << b.id, b.price, b.liquidity_supply, b.rewards_growth_global,
       b.fee_amount_a_growth_global, b.fee_amount_b_growth_global >>

\* C25: a swap call leaves the bins in their number and order, each with
\* its id, price, liquidity_supply, rewards_growth_global and fee growths,
\* leaves base_fee_rate and the step configuration, and, if it succeeds,
\* leaves the reserves of every bin that is not in result.steps.
C25_Frame ==
    Called =>
        /\ Len(pool.bins) = Len(last.pre.bins)
        /\ \A i \in 1..Len(last.pre.bins) :
              CarriedFields(pool.bins[i]) = CarriedFields(last.pre.bins[i])
        /\ pool.base_fee_rate = last.pre.base_fee_rate
        /\ pool.v_parameters.bin_step_config = last.pre.v_parameters.bin_step_config
        /\ last.r.st = "ok" =>
              \A i \in 1..Len(last.pre.bins) :
                  last.pre.bins[i].id \notin TriedIds =>
                      pool.bins[i] = last.pre.bins[i]

\* A swap that changed the reserves of the bins of its steps and left a
\* bin with reserves out of them.
C25_Witness ==
    /\ Succeeded
    /\ Steps # << >>
    /\ \A i \in 1..Len(Steps) :
          BinAfter(Steps[i].bin_id).amount_a # BinBefore(Steps[i].bin_id).amount_a
    /\ \E i \in 1..Len(last.pre.bins) :
          /\ last.pre.bins[i].id \notin TriedIds
          /\ last.pre.bins[i].amount_a # Zero
          /\ pool.bins[i] = last.pre.bins[i]

\* The fields f of the steps of the result, in order.
StepAmountsIn == [i \in 1..Len(Steps) |-> Steps[i].amount_in]

StepAmountsOut == [i \in 1..Len(Steps) |-> Steps[i].amount_out]

StepFees == [i \in 1..Len(Steps) |-> Steps[i].fee]

ProtocolFeeRate == last.pre.v_parameters.bin_step_config.protocol_fee_rate

\* The protocol fee the bin of step i returned: the share of the step's fee
\* at the pool's protocol fee rate, rounded up.
StepProtocolFee(i) == calculate_fee_inclusive(Steps[i].fee, ProtocolFeeRate).v

RatesWithinPrecision ==
    /\ Le(ProtocolFeeRate, N(FEE_PRECISION))
    /\ \A i \in 1..Len(last.r.trace) : Le(last.r.trace[i].fee_rate, N(FEE_PRECISION))

StepFeesNested ==
    \A i \in 1..Len(Steps) :
        /\ Le(StepProtocolFee(i), Steps[i].fee)
        /\ Le(Steps[i].fee, Steps[i].amount_in)

ResultFeesNested ==
    /\ Le(Result.protocol_fee, Result.fee)
    /\ Le(Result.fee, Result.amount_in)

ResultSumsSteps ==
    /\ Result.amount_in = Total(StepAmountsIn)
    /\ Result.amount_out = Total(StepAmountsOut)
    /\ Result.fee = Total(StepFees)

\* C26: after a successful swap with fee rates <= FEE_PRECISION, in every
\* step protocol fee <= fee <= amount_in, in the result protocol_fee <= fee
\* <= amount_in, and the result's amount_in, amount_out and fee are the sums
\* of the steps' values.
C26_FeesNested ==
    (Succeeded /\ RatesWithinPrecision) =>
        StepFeesNested /\ ResultFeesNested /\ ResultSumsSteps

\* The same on a build with overflow checks, where a sum that does not fit
\* u64 ends the call.
FeesNestedChecked == overflow_checks => C26_FeesNested

\* The last bin call was a successful swap_exact_amount_out at a price > 0
\* and a fee rate < FEE_PRECISION.
ExactOutSucceeded ==
    /\ BinSucceeded
    /\ blast.op = "out"
    /\ blast.pre.price # Zero
    /\ Lt(blast.fee_rate, N(FEE_PRECISION))

\* swap_exact_amount_in of the input that call returned, at the same rates,
\* on a copy of the bin as it was before the call.
ExactInOfReturned ==
    Bin_swap_exact_amount_in(blast.pre, blast.r.v.amount_in, blast.a2b, blast.fee_rate,
                             blast.protocol_fee_rate, overflow_checks)

\* C27: if swap_exact_amount_out(X) succeeds on a bin at a price > 0 and a
\* fee rate < FEE_PRECISION and returns (Y, X', fee, _), then
\* swap_exact_amount_in(Y) at the same rates on a copy of the bin succeeds,
\* consumes at most Y and gives out at least X'.
C27_ExactOutInConsistent ==
    ExactOutSucceeded =>
        /\ ExactInOfReturned.st = "ok"
        /\ Le(ExactInOfReturned.v.amount_in, blast.r.v.amount_in)
        /\ Le(blast.r.v.amount_out, ExactInOfReturned.v.amount_out)

\* The same for fee rates up to MAX_FEE_RATE on a build with overflow checks:
\* there the exact-out fee fits u64, and a sum that does not ends the call.
ExactOutInConsistentInRange ==
    (overflow_checks /\ Le(blast.fee_rate, N(MAX_FEE_RATE))) => C27_ExactOutInConsistent
====
